---- MODULE Spec2Model ----
(***************************************************************************)
(* A model of app.py, the job-posting generator: a Streamlit script that   *)
(* builds a retrieval index once (setup_rag, memoized by                   *)
(* st.cache_resource), builds the chain (setup_chain) and serves a form    *)
(* whose submission runs retrieval and generation.                         *)
(*                                                                         *)
(* The script's own statements are modelled one action per step.  The      *)
(* library calls it makes are modelled by what the called library does     *)
(* with the arguments the script gives: st.cache_resource (one entry per   *)
(* function, computed under a lock, the None of a failed setup included),  *)
(* RecursiveCharacterTextSplitter(chunk_size=1000, chunk_overlap=100) and  *)
(* the Chroma retriever with k = 5.  The remote services (the listing and  *)
(* the downloads, the embedding model, the generation model) answer or     *)
(* fail as they please.                                                    *)
(*                                                                         *)
(* Texts are sequences of characters.  A chunk is a span [lo, hi) of the   *)
(* document it was split from, together with that document's source name.  *)
(***************************************************************************)
EXTENDS Integers, Sequences, FiniteSets, TLC

\* ------------------------------------------------------------------ texts

\* A text is written as a sequence of runs <<character, count>>.
RECURSIVE Expand(_)
Expand(runs) ==
  IF runs = <<>> THEN <<>>
  ELSE [i \in 1..Head(runs)[2] |-> Head(runs)[1]] \o Expand(Tail(runs))

Min(S) == CHOOSE m \in S : \A o \in S : m <= o
Range(seq) == {seq[i] : i \in DOMAIN seq}

\* str.strip(): the characters Python strips from both ends of a chunk.
IsWhitespace(c) == c \in {" ", "\n"}

\* ---------------------------------------------------------------- chunker
\* RecursiveCharacterTextSplitter(chunk_size=1000, chunk_overlap=100), with
\* the class's defaults: separators ["\n\n", "\n", " ", ""], keep_separator,
\* strip_whitespace, length_function = len.

chunk_size == 1000
chunk_overlap == 100
separators == << <<"\n", "\n">>, <<"\n">>, <<" ">>, <<>> >>

\* re.search / re.split: the start offsets of the leftmost non-overlapping
\* occurrences of sep in text[lo, hi).
RECURSIVE FindAll(_, _, _, _)
FindAll(text, lo, hi, sep) ==
  LET cand == {i \in lo..(hi - Len(sep)) :
                 \A j \in 1..Len(sep) : text[i + j] = sep[j]}
  IN IF cand = {} THEN <<>>
     ELSE <<Min(cand)>> \o FindAll(text, Min(cand) + Len(sep), hi, sep)

\* _split_text_with_regex with keep_separator=True: each separator stays at
\* the start of the piece that follows it; empty pieces are dropped.  With
\* the separator "" the text is split into its characters.
SplitWithRegex(text, lo, hi, sep) ==
  IF sep = <<>>
  THEN [i \in 1..(hi - lo) |-> <<lo + i - 1, lo + i>>]
  ELSE LET at == FindAll(text, lo, hi, sep)
           cuts == <<lo>> \o at \o <<hi>>
           all == [i \in 1..(Len(cuts) - 1) |-> <<cuts[i], cuts[i + 1]>>]
       IN SelectSeq(all, LAMBDA s : s[1] < s[2])

\* _join_docs: the pieces joined (they are adjacent, the separator is kept in
\* them), stripped of whitespace at both ends; None (here <<>>) when nothing
\* is left.
JoinDocs(text, lo, hi) ==
  IF \A i \in (lo + 1)..hi : IsWhitespace(text[i]) THEN <<>>
  ELSE LET Solid(i) == ~IsWhitespace(text[i])
           first == CHOOSE i \in (lo + 1)..hi :
                      Solid(i) /\ \A j \in (lo + 1)..(i - 1) : ~Solid(j)
           last == CHOOSE i \in (lo + 1)..hi :
                     Solid(i) /\ \A j \in (i + 1)..hi : ~Solid(j)
       IN << <<first - 1, last>> >>

\* Mutants of MergeLoop: the piece that did not fit is lost; the next chunk
\* starts where the last one ended, without overlap.
RECURSIVE MergeLoopLosing(_, _, _, _, _, _)
MergeLoopLosing(text, splits, first, from, to, docs) ==
  LET PieceLen(i) == splits[i][2] - splits[i][1]
      over == {i \in from..to :
                 first < i /\ (IF first >= i THEN 0 ELSE splits[i - 1][2] - splits[first][1])
                              + PieceLen(i) > chunk_size}
  IN IF over = {}
     THEN docs \o (IF first > to THEN <<>>
                   ELSE JoinDocs(text, splits[first][1], splits[to][2]))
     ELSE LET i == Min(over)
          IN MergeLoopLosing(text, splits, i + 1, i + 1, to,
                             docs \o JoinDocs(text, splits[first][1], splits[i - 1][2]))

RECURSIVE MergeLoopNoOverlap(_, _, _, _, _, _)
MergeLoopNoOverlap(text, splits, first, from, to, docs) ==
  LET PieceLen(i) == splits[i][2] - splits[i][1]
      over == {i \in from..to :
                 first < i /\ (IF first >= i THEN 0 ELSE splits[i - 1][2] - splits[first][1])
                              + PieceLen(i) > chunk_size}
  IN IF over = {}
     THEN docs \o (IF first > to THEN <<>>
                   ELSE JoinDocs(text, splits[first][1], splits[to][2]))
     ELSE LET i == Min(over)
          IN MergeLoopNoOverlap(text, splits, i, i + 1, to,
                                docs \o JoinDocs(text, splits[first][1], splits[i - 1][2]))

\* _merge_splits over the adjacent pieces splits[from..to], the separator
\* joining them being "" (keep_separator).  current_doc is splits[first..i-1]
\* when piece i is looked at, and total is its length.  The loop is followed
\* from one piece that does not fit to the next.
Total(splits, first, i) == IF first >= i THEN 0 ELSE splits[i - 1][2] - splits[first][1]

RECURSIVE MergeLoop(_, _, _, _, _, _)
MergeLoop(text, splits, first, from, to, docs) ==
  LET PieceLen(i) == splits[i][2] - splits[i][1]
      \* if total + _len > chunk_size: if len(current_doc) > 0: ...
      over == {i \in from..to :
                 first < i /\ Total(splits, first, i) + PieceLen(i) > chunk_size}
  IN IF over = {}
     THEN docs \o (IF first > to THEN <<>>
                   ELSE JoinDocs(text, splits[first][1], splits[to][2]))
     ELSE LET i == Min(over)
              \* while total > chunk_overlap or
              \*       (total + _len > chunk_size and total > 0): drop current_doc[0]
              Keep(f) == ~(Total(splits, f, i) > chunk_overlap
                           \/ (Total(splits, f, i) + PieceLen(i) > chunk_size
                               /\ Total(splits, f, i) > 0))
              popped == Min({f \in first..i : Keep(f)})
          IN MergeLoop(text, splits, popped, i + 1, to,
                       docs \o JoinDocs(text, splits[first][1], splits[i - 1][2]))

MergeSplits(text, splits, from, to) == MergeLoop(text, splits, from, from, to, <<>>)

\* _split_text: split on the first separator that occurs in the text, merge
\* the pieces shorter than chunk_size, and split the others again with the
\* separators that follow.
RECURSIVE SplitText(_, _, _, _)
RECURSIVE SplitLoop(_, _, _, _, _)
SplitLoop(text, splits, rest, good, out) ==
  \* good: the index of the first piece of _good_splits; the pieces before
  \* the next one of chunk_size or more are collected into _good_splits
  LET big == {i \in good..Len(splits) : splits[i][2] - splits[i][1] >= chunk_size}
  IN IF big = {} THEN out \o MergeSplits(text, splits, good, Len(splits))
     ELSE LET i == Min(big)
              flushed == out \o MergeSplits(text, splits, good, i - 1)
              again == IF rest > Len(separators)
                       THEN <<splits[i]>>
                       ELSE SplitText(text, splits[i][1], splits[i][2], rest)
          IN SplitLoop(text, splits, rest, i + 1, flushed \o again)

SplitText(text, lo, hi, from) ==
  LET found == {s \in from..Len(separators) :
                  separators[s] = <<>> \/ FindAll(text, lo, hi, separators[s]) # <<>>}
      s == IF found = {} THEN Len(separators) ELSE Min(found)
      \* new_separators stays empty when the separator chosen is ""
      rest == IF found = {} \/ separators[s] = <<>> THEN Len(separators) + 1 ELSE s + 1
      splits == SplitWithRegex(text, lo, hi, separators[s])
  IN SplitLoop(text, splits, rest, 1, <<>>)

\* split_documents: every chunk carries a copy of its document's metadata.
SplitDocument(doc) ==
  LET text == Expand(doc.content)
      spans == SplitText(text, 0, Len(text), 1)
  IN [i \in 1..Len(spans) |->
        [source |-> doc.source, lo |-> spans[i][1], hi |-> spans[i][2]]]

\* Document.page_content of a chunk.
ChunkText(doc, c) == SubSeq(Expand(doc.content), c.lo + 1, c.hi)

RECURSIVE SplitDocuments(_)
SplitDocuments(documents) ==
  IF documents = <<>> THEN <<>>
  ELSE SplitDocument(Head(documents)) \o SplitDocuments(Tail(documents))

\* ------------------------------------------------------------ the process
\* One Streamlit process serves several browser sessions; every page load or
\* form submission of a session runs the script from its first line.

Sessions == {"s1", "s2"}
NoSession == "none"

VARIABLES
  hasKey,        \* "GEMINI_API_KEY" in st.secrets
  cache,         \* st.cache_resource's entry for setup_rag()
  lock,          \* the session computing the entry (the cache's compute lock)
  pc,            \* where each session's script run is
  retriever,     \* the script's retriever
  rag_chain,     \* the script's rag_chain
  reports,       \* what the current run has written to the page, in order
  formOnScreen,  \* the form is drawn on the session's page
  form,          \* the widget values of the run, and whether it was a submission
  user_input,    \* the text passed to rag_chain.invoke
  context,       \* the chunks the retriever returned
  files,         \* setup_rag: the listing entries still to visit
  all_documents, \* setup_rag: all_documents
  splits,        \* setup_rag: splits
  buildCount,    \* history: how often the body of setup_rag was entered
  attempted,     \* history: the stages and remote calls ever started
  stages,        \* history: the stages of the setup, in order, with their outcome
  reported,      \* history: every condition ever written to a page
  runs,          \* history: script runs started per session
  genRun,        \* history: rag_chain.invoke calls of the current run
  lastGen,       \* history: outcome of the current run's invoke
  cdoc, cchunks, cdone   \* the chunker on its own (ChunkSpec)

appvars == <<hasKey, cache, lock, pc, retriever, rag_chain, reports, formOnScreen,
             form, user_input, context, files, all_documents, splits, buildCount,
             attempted, stages, reported, runs, genRun, lastGen>>
cvars == <<cdoc, cchunks, cdone>>
vars == <<appvars, cvars>>

\* bounds of the model
MaxReruns == 4
MaxFiles == 2
MaxRuns == 3
VecMod == 3

k == 5

None == [ok |-> FALSE, k |-> 0, index |-> <<>>]
EmptyCache == [full |-> FALSE, value |-> None, messages |-> <<>>]

\* the remote repository: names a listing may hold, contents a download may give
NameSet == {"a.txt", "b.txt", "README.md"}
EndsWithTxt(name) == name \in {"a.txt", "b.txt"}
ListingSet == {l \in UNION {[1..n -> NameSet] : n \in 0..MaxFiles} :
                 \A i, j \in DOMAIN l : i # j => l[i] # l[j]}
ContentSet == {<<>>,
               << <<"a", 300>> >>,
               << <<"a", 1500>>, <<"\n", 2>>, <<"a", 1500>> >>}
ErrorBody == << <<"a", 3>>, <<" ", 1>>, <<"a", 9>> >>

\* the form's widgets
NoForm == [submitted |-> FALSE, job_title |-> "", target_audience |-> "",
           required_skills |-> "", welcome_skills |-> ""]
Submission(title, audience, required, welcome) ==
  [submitted |-> TRUE, job_title |-> title, target_audience |-> audience,
   required_skills |-> required, welcome_skills |-> welcome]
FormSet == {Submission("", "", "", ""),
            Submission("", "engineer", "python", "go"),
            Submission("Backend Engineer", "", "", ""),
            Submission("Backend Engineer", "engineer", "", "")}

\* the f-string of the submission: the four labelled lines
Render(f) ==
  "job_title: " \o f.job_title \o "\n" \o
  "target_audience: " \o f.target_audience \o "\n" \o
  "required_skills: " \o f.required_skills \o "\n" \o
  "welcome_skills: " \o f.welcome_skills \o "\n"

\* the remote embedding model: a fixed function of the text
EmbeddingModel(text) == Len(text) % VecMod

Distance(u, v) == IF u >= v THEN u - v ELSE v - u

\* Mutant of Retrieve: only the entries at distance 0 are returned.
RetrieveRelevant(handle, q) ==
  SelectSeq(handle.index, LAMBDA e : Distance(e.vec, q) = 0)

\* the retriever of as_retriever(search_kwargs={"k": 5}): the k entries nearest
\* to the query vector, nearest first, earlier entries first among equals; all
\* of them when the index holds fewer than k.
Retrieve(handle, q) ==
  LET index == handle.index
      n == Len(index)
      Before(i, j) == \/ Distance(index[i].vec, q) < Distance(index[j].vec, q)
                      \/ Distance(index[i].vec, q) = Distance(index[j].vec, q) /\ i < j
      Rank(i) == 1 + Cardinality({j \in 1..n : Before(j, i)})
      m == IF n < handle.k THEN n ELSE handle.k
  IN [r \in 1..m |-> index[CHOOSE i \in 1..n : Rank(i) = r]]

Init ==
  /\ hasKey \in BOOLEAN
  /\ cache = EmptyCache
  /\ lock = NoSession
  /\ pc = [s \in Sessions |-> "idle"]
  /\ retriever = [s \in Sessions |-> None]
  /\ rag_chain = [s \in Sessions |-> FALSE]
  /\ reports = [s \in Sessions |-> <<>>]
  /\ formOnScreen = [s \in Sessions |-> FALSE]
  /\ form = [s \in Sessions |-> NoForm]
  /\ user_input = [s \in Sessions |-> ""]
  /\ context = [s \in Sessions |-> <<>>]
  /\ files = [s \in Sessions |-> <<>>]
  /\ all_documents = [s \in Sessions |-> <<>>]
  /\ splits = [s \in Sessions |-> <<>>]
  /\ buildCount = 0
  /\ attempted = {}
  /\ stages = <<>>
  /\ reported = {}
  /\ runs = [s \in Sessions |-> 0]
  /\ genRun = [s \in Sessions |-> 0]
  /\ lastGen = [s \in Sessions |-> "none"]
  /\ cdoc = [source |-> "", content |-> <<>>]
  /\ cchunks = <<>>
  /\ cdone = FALSE

\* ------------------------------------------------------------ script runs
\* the script runs started so far, over all sessions
RECURSIVE SumOver(_, _)
SumOver(f, S) == IF S = {} THEN 0
                 ELSE LET x == CHOOSE y \in S : TRUE IN f[x] + SumOver(f, S \ {x})
TotalRuns == SumOver(runs, Sessions)

\* st.error, st.warning, st.success, st.markdown: msgs are written to the page.
Report(s, msgs) ==
  /\ reports' = [reports EXCEPT ![s] = @ \o msgs]
  /\ reported' = reported \cup {msgs[i] : i \in DOMAIN msgs}

\* Mutant of StartRun: the credential is not looked at.
StartRunUnchecked(s) ==
  /\ pc[s] = "idle"
  /\ TotalRuns < MaxReruns
  /\ \E f \in {NoForm} \cup (IF formOnScreen[s] THEN FormSet ELSE {}) :
       form' = [form EXCEPT ![s] = f]
  /\ runs' = [runs EXCEPT ![s] = @ + 1]
  /\ formOnScreen' = [formOnScreen EXCEPT ![s] = FALSE]
  /\ retriever' = [retriever EXCEPT ![s] = None]
  /\ rag_chain' = [rag_chain EXCEPT ![s] = FALSE]
  /\ user_input' = [user_input EXCEPT ![s] = ""]
  /\ context' = [context EXCEPT ![s] = <<>>]
  /\ genRun' = [genRun EXCEPT ![s] = 0]
  /\ lastGen' = [lastGen EXCEPT ![s] = "none"]
  /\ reports' = [reports EXCEPT ![s] = <<>>]
  /\ pc' = [pc EXCEPT ![s] = "setup_rag"]
  /\ UNCHANGED <<hasKey, cache, lock, files, all_documents, splits, buildCount,
                 attempted, stages, reported, cvars>>

\* A page load or a form submission starts a run (lines 143-148): the page is
\* redrawn from the top, and without the credential only the error is shown.
\* A submission needs the form the previous run drew.
StartRun(s) ==
  /\ pc[s] = "idle"
  /\ TotalRuns < MaxReruns
  /\ \E f \in {NoForm} \cup (IF formOnScreen[s] THEN FormSet ELSE {}) :
       form' = [form EXCEPT ![s] = f]
  /\ runs' = [runs EXCEPT ![s] = @ + 1]
  /\ formOnScreen' = [formOnScreen EXCEPT ![s] = FALSE]
  /\ retriever' = [retriever EXCEPT ![s] = None]
  /\ rag_chain' = [rag_chain EXCEPT ![s] = FALSE]
  /\ user_input' = [user_input EXCEPT ![s] = ""]
  /\ context' = [context EXCEPT ![s] = <<>>]
  /\ genRun' = [genRun EXCEPT ![s] = 0]
  /\ lastGen' = [lastGen EXCEPT ![s] = "none"]
  /\ IF hasKey
     THEN /\ reports' = [reports EXCEPT ![s] = <<>>]
          /\ pc' = [pc EXCEPT ![s] = "setup_rag"]
          /\ UNCHANGED reported
     ELSE /\ reports' = [reports EXCEPT ![s] = <<"MissingCredential">>]
          /\ reported' = reported \cup {"MissingCredential"}
          /\ pc' = [pc EXCEPT ![s] = "idle"]
  /\ UNCHANGED <<hasKey, cache, lock, files, all_documents, splits, buildCount,
                 attempted, stages, cvars>>

\* Mutant of SetupRagCall: setup_rag without the decorator; every call runs
\* the body.
SetupRagCallUncached(s) ==
  /\ pc[s] = "setup_rag"
  /\ buildCount' = buildCount + 1
  /\ pc' = [pc EXCEPT ![s] = "list"]
  /\ UNCHANGED <<hasKey, cache, lock, retriever, rag_chain, reports, reported,
                 formOnScreen, form, user_input, context, files, all_documents,
                 splits, attempted, stages, runs, genRun, lastGen, cvars>>

\* The call setup_rag() of line 152 under @st.cache_resource: a stored entry is
\* returned without running the body, and the st.error it recorded is replayed;
\* otherwise the caller goes for the entry's compute lock.
SetupRagCall(s) ==
  /\ pc[s] = "setup_rag"
  /\ IF cache.full
     THEN /\ retriever' = [retriever EXCEPT ![s] = cache.value]
          /\ Report(s, cache.messages)
          /\ pc' = [pc EXCEPT ![s] = "setup_chain"]
     ELSE /\ pc' = [pc EXCEPT ![s] = "wait_lock"]
          /\ UNCHANGED <<retriever, reports, reported>>
  /\ UNCHANGED <<hasKey, cache, lock, rag_chain, formOnScreen, form, user_input,
                 context, files, all_documents, splits, buildCount, attempted,
                 stages, runs, genRun, lastGen, cvars>>

\* With the lock the entry is looked up again; only when it is still missing
\* does the body of setup_rag run.
EnterSetupRag(s) ==
  /\ pc[s] = "wait_lock"
  /\ lock = NoSession
  /\ IF cache.full
     THEN /\ retriever' = [retriever EXCEPT ![s] = cache.value]
          /\ Report(s, cache.messages)
          /\ pc' = [pc EXCEPT ![s] = "setup_chain"]
          /\ UNCHANGED <<lock, buildCount>>
     ELSE /\ lock' = s
          /\ buildCount' = buildCount + 1
          /\ pc' = [pc EXCEPT ![s] = "list"]
          /\ UNCHANGED <<retriever, reports, reported>>
  /\ UNCHANGED <<hasKey, cache, rag_chain, formOnScreen, form, user_input,
                 context, files, all_documents, splits, attempted, stages, runs,
                 genRun, lastGen, cvars>>

\* setup_rag returns value, having written msgs to the page: the decorator
\* stores both and gives the lock back.
ReturnFromSetupRag(s, value, msgs) ==
  /\ cache' = [full |-> TRUE, value |-> value, messages |-> msgs]
  /\ lock' = IF lock = s THEN NoSession ELSE lock
  /\ retriever' = [retriever EXCEPT ![s] = value]
  /\ Report(s, msgs)
  /\ pc' = [pc EXCEPT ![s] = "setup_chain"]
  /\ files' = [files EXCEPT ![s] = <<>>]
  /\ all_documents' = [all_documents EXCEPT ![s] = <<>>]
  /\ splits' = [splits EXCEPT ![s] = <<>>]

\* Lines 29-32: the listing request; raise_for_status() raises on an error
\* status, and the handler of lines 72-74 reports it and returns None.
FetchListing(s) ==
  /\ pc[s] = "list"
  /\ attempted' = attempted \cup {"list"}
  /\ \/ /\ stages' = Append(stages, <<"list", FALSE>>)
        /\ ReturnFromSetupRag(s, None, <<"FetchError">>)
     \/ \E l \in ListingSet :
          /\ stages' = Append(stages, <<"list", TRUE>>)
          /\ files' = [files EXCEPT ![s] = l]
          /\ pc' = [pc EXCEPT ![s] = IF l = <<>> THEN "check_docs" ELSE "download"]
          /\ UNCHANGED <<cache, lock, retriever, reports, reported, all_documents, splits>>
  /\ UNCHANGED <<hasKey, rag_chain, formOnScreen, form, user_input, context,
                 buildCount, runs, genRun, lastGen, cvars>>

\* Lines 37-50, one entry of the listing: an entry that is not .txt is passed
\* over; a .txt entry is downloaded.  The request may raise (no connection);
\* a response is taken as it is, whatever its status: its text becomes the
\* document.
Download(s) ==
  /\ pc[s] = "download"
  /\ files[s] # <<>>
  /\ LET name == Head(files[s])
         next == IF Tail(files[s]) = <<>> THEN "check_docs" ELSE "download"
         Keep(content) ==
           /\ files' = [files EXCEPT ![s] = Tail(@)]
           /\ all_documents' = [all_documents EXCEPT ![s] =
                                  Append(@, [source |-> name, content |-> content])]
           /\ pc' = [pc EXCEPT ![s] = next]
           /\ UNCHANGED <<cache, lock, retriever, reports, reported, splits>>
     IN IF ~EndsWithTxt(name)
        THEN /\ files' = [files EXCEPT ![s] = Tail(@)]
             /\ pc' = [pc EXCEPT ![s] = next]
             /\ UNCHANGED <<cache, lock, retriever, reports, reported, all_documents, splits,
                            attempted, stages>>
        ELSE /\ attempted' = attempted \cup {"download"}
             /\ \/ /\ stages' = Append(stages, <<"download", FALSE>>)
                   /\ ReturnFromSetupRag(s, None, <<"FetchError">>)
                \/ /\ stages' = Append(stages, <<"download", FALSE>>)
                   /\ Keep(ErrorBody)
                \/ \E c \in ContentSet :
                     /\ stages' = Append(stages, <<"download", TRUE>>)
                     /\ Keep(c)
  /\ UNCHANGED <<hasKey, rag_chain, formOnScreen, form, user_input, context,
                 buildCount, runs, genRun, lastGen, cvars>>

\* Mutant of CheckDocuments: the error is shown and the setup goes on.
CheckDocumentsNoReturn(s) ==
  /\ pc[s] = "check_docs"
  /\ Report(s, IF all_documents[s] = <<>> THEN <<"EmptyKnowledgeBase">> ELSE <<>>)
  /\ pc' = [pc EXCEPT ![s] = "chunk"]
  /\ UNCHANGED <<hasKey, cache, lock, retriever, rag_chain, formOnScreen, form,
                 user_input, context, files, all_documents, splits, buildCount,
                 attempted, stages, runs, genRun, lastGen, cvars>>

\* Lines 52-54: no document, no knowledge base.
CheckDocuments(s) ==
  /\ pc[s] = "check_docs"
  /\ IF all_documents[s] = <<>>
     THEN ReturnFromSetupRag(s, None, <<"EmptyKnowledgeBase">>)
     ELSE /\ pc' = [pc EXCEPT ![s] = "chunk"]
          /\ UNCHANGED <<cache, lock, retriever, reports, reported, files, all_documents, splits>>
  /\ UNCHANGED <<hasKey, rag_chain, formOnScreen, form, user_input, context,
                 buildCount, attempted, stages, runs, genRun, lastGen, cvars>>

\* Lines 59-60.
Chunk(s) ==
  /\ pc[s] = "chunk"
  /\ attempted' = attempted \cup {"chunk"}
  /\ stages' = Append(stages, <<"chunk", TRUE>>)
  /\ splits' = [splits EXCEPT ![s] = SplitDocuments(all_documents[s])]
  /\ pc' = [pc EXCEPT ![s] = "embed"]
  /\ UNCHANGED <<hasKey, cache, lock, retriever, rag_chain, reports, reported, formOnScreen,
                 form, user_input, context, files, all_documents, buildCount, runs,
                 genRun, lastGen, cvars>>

\* Lines 63-67, first half of Chroma.from_documents: the texts of the splits
\* go to the remote embedding model (no request when there is none to embed).
Embed(s) ==
  /\ pc[s] = "embed"
  /\ attempted' = attempted \cup {"embed"}
  /\ \/ /\ splits[s] # <<>>
        /\ stages' = Append(stages, <<"embed", FALSE>>)
        /\ ReturnFromSetupRag(s, None, <<"EmbeddingError">>)
     \/ /\ stages' = Append(stages, <<"embed", TRUE>>)
        /\ splits' = [splits EXCEPT ![s] =
             [i \in DOMAIN @ |->
                LET doc == CHOOSE d \in {all_documents[s][j] : j \in DOMAIN all_documents[s]} :
                             d.source = @[i].source
                IN [source |-> @[i].source, lo |-> @[i].lo, hi |-> @[i].hi,
                    vec |-> EmbeddingModel(ChunkText(doc, @[i]))]]]
        /\ pc' = [pc EXCEPT ![s] = "index"]
        /\ UNCHANGED <<cache, lock, retriever, reports, reported, files, all_documents>>
  /\ UNCHANGED <<hasKey, rag_chain, formOnScreen, form, user_input, context,
                 buildCount, runs, genRun, lastGen, cvars>>

\* Lines 67-70, second half: the collection is filled and the retriever over
\* it returned, or the store raises.
BuildIndex(s) ==
  /\ pc[s] = "index"
  /\ attempted' = attempted \cup {"index"}
  /\ \/ /\ stages' = Append(stages, <<"index", FALSE>>)
        /\ ReturnFromSetupRag(s, None, <<"IndexError">>)
     \/ /\ stages' = Append(stages, <<"index", TRUE>>)
        /\ ReturnFromSetupRag(s, [ok |-> TRUE, k |-> k, index |-> splits[s]], <<>>)
  /\ UNCHANGED <<hasKey, rag_chain, formOnScreen, form, user_input, context,
                 buildCount, runs, genRun, lastGen, cvars>>

\* Line 153 and lines 78-139: no remote call is made; create_retrieval_chain
\* raises on a retriever that is None, which is reported, and None returned.
SetupChain(s) ==
  /\ pc[s] = "setup_chain"
  /\ rag_chain' = [rag_chain EXCEPT ![s] = retriever[s].ok]
  /\ Report(s, IF retriever[s].ok THEN <<>> ELSE <<"ChainSetupError">>)
  /\ pc' = [pc EXCEPT ![s] = "form"]
  /\ UNCHANGED <<hasKey, cache, lock, retriever, formOnScreen, form, user_input,
                 context, files, all_documents, splits, buildCount, attempted,
                 stages, runs, genRun, lastGen, cvars>>

\* Mutant of ShowForm: every field is required.
ShowFormAllRequired(s) ==
  /\ pc[s] = "form"
  /\ IF retriever[s].ok /\ rag_chain[s]
     THEN /\ formOnScreen' = [formOnScreen EXCEPT ![s] = TRUE]
          /\ IF ~form[s].submitted
             THEN /\ Report(s, <<"Ready">>)
                  /\ pc' = [pc EXCEPT ![s] = "idle"]
                  /\ UNCHANGED user_input
             ELSE IF "" \in {form[s].job_title, form[s].target_audience,
                             form[s].required_skills, form[s].welcome_skills}
             THEN /\ Report(s, <<"Ready", "TitleRequired">>)
                  /\ pc' = [pc EXCEPT ![s] = "idle"]
                  /\ UNCHANGED user_input
             ELSE /\ Report(s, <<"Ready">>)
                  /\ user_input' = [user_input EXCEPT ![s] = Render(form[s])]
                  /\ pc' = [pc EXCEPT ![s] = "retrieve"]
     ELSE /\ pc' = [pc EXCEPT ![s] = "idle"]
          /\ UNCHANGED <<formOnScreen, reports, reported, user_input>>
  /\ UNCHANGED <<hasKey, cache, lock, retriever, rag_chain, form, context, files,
                 all_documents, splits, buildCount, attempted, stages, runs,
                 genRun, lastGen, cvars>>

\* Lines 155-183: the form is drawn when both values are there; a submission
\* without job_title gets the warning, any other goes on to the chain.
ShowForm(s) ==
  /\ pc[s] = "form"
  /\ IF retriever[s].ok /\ rag_chain[s]
     THEN /\ formOnScreen' = [formOnScreen EXCEPT ![s] = TRUE]
          /\ IF ~form[s].submitted
             THEN /\ Report(s, <<"Ready">>)
                  /\ pc' = [pc EXCEPT ![s] = "idle"]
                  /\ UNCHANGED user_input
             ELSE IF form[s].job_title = ""
             THEN /\ Report(s, <<"Ready", "TitleRequired">>)
                  /\ pc' = [pc EXCEPT ![s] = "idle"]
                  /\ UNCHANGED user_input
             ELSE /\ Report(s, <<"Ready">>)
                  /\ user_input' = [user_input EXCEPT ![s] = Render(form[s])]
                  /\ pc' = [pc EXCEPT ![s] = "retrieve"]
     ELSE /\ pc' = [pc EXCEPT ![s] = "idle"]
          /\ UNCHANGED <<formOnScreen, reports, reported, user_input>>
  /\ UNCHANGED <<hasKey, cache, lock, retriever, rag_chain, form, context, files,
                 all_documents, splits, buildCount, attempted, stages, runs,
                 genRun, lastGen, cvars>>

\* Line 187, first half of rag_chain.invoke: the input is embedded by the
\* remote model and the retriever queried; an exception ends the run in the
\* handler of lines 193-194.
RetrieveContext(s) ==
  /\ pc[s] = "retrieve"
  /\ \/ /\ attempted' = attempted \cup {"embed_query"}
        /\ Report(s, <<"GenerationError">>)
        /\ lastGen' = [lastGen EXCEPT ![s] = "failed_retrieval"]
        /\ pc' = [pc EXCEPT ![s] = "idle"]
        /\ UNCHANGED context
     \/ /\ attempted' = attempted \cup {"embed_query", "query"}
        /\ context' = [context EXCEPT ![s] =
                         Retrieve(retriever[s], EmbeddingModel(user_input[s]))]
        /\ pc' = [pc EXCEPT ![s] = "generate"]
        /\ UNCHANGED <<reports, reported, lastGen>>
  /\ UNCHANGED <<hasKey, cache, lock, retriever, rag_chain, formOnScreen, form,
                 user_input, files, all_documents, splits, buildCount, stages,
                 runs, genRun, cvars>>

\* Mutant of Generate: a failed call is made once more before it is reported.
GenerateRetrying(s) ==
  /\ pc[s] = "generate"
  /\ attempted' = attempted \cup {"generate"}
  /\ \/ /\ genRun' = [genRun EXCEPT ![s] = @ + 1]
        /\ Report(s, <<"Answer">>)
        /\ lastGen' = [lastGen EXCEPT ![s] = "ok"]
     \/ /\ genRun' = [genRun EXCEPT ![s] = @ + 2]
        /\ Report(s, <<"GenerationError">>)
        /\ lastGen' = [lastGen EXCEPT ![s] = "failed"]
  /\ pc' = [pc EXCEPT ![s] = "idle"]
  /\ UNCHANGED <<hasKey, cache, lock, retriever, rag_chain, formOnScreen, form,
                 user_input, context, files, all_documents, splits, buildCount,
                 stages, runs, cvars>>

\* Line 187, second half, and lines 189-194: the remote generation call; the
\* answer is shown, or the exception reported.
Generate(s) ==
  /\ pc[s] = "generate"
  /\ attempted' = attempted \cup {"generate"}
  /\ genRun' = [genRun EXCEPT ![s] = @ + 1]
  /\ \/ /\ Report(s, <<"Answer">>)
        /\ lastGen' = [lastGen EXCEPT ![s] = "ok"]
     \/ /\ Report(s, <<"GenerationError">>)
        /\ lastGen' = [lastGen EXCEPT ![s] = "failed"]
  /\ pc' = [pc EXCEPT ![s] = "idle"]
  /\ UNCHANGED <<hasKey, cache, lock, retriever, rag_chain, formOnScreen, form,
                 user_input, context, files, all_documents, splits, buildCount,
                 stages, runs, cvars>>

Next ==
  \E s \in Sessions :
    \/ StartRun(s)
    \/ SetupRagCall(s)
    \/ EnterSetupRag(s)
    \/ FetchListing(s)
    \/ Download(s)
    \/ CheckDocuments(s)
    \/ Chunk(s)
    \/ Embed(s)
    \/ BuildIndex(s)
    \/ SetupChain(s)
    \/ ShowForm(s)
    \/ RetrieveContext(s)
    \/ Generate(s)

Spec == Init /\ [][Next]_vars

\* ------------------------------------------------------- the chunker alone
RunSet == {<<"a", 300>>, <<"a", 1000>>, <<"a", 1500>>,
           <<" ", 1>>, <<"\n", 1>>}
TextSet == UNION {[1..n -> RunSet] : n \in 0..MaxRuns}

ChunkInit ==
  /\ hasKey = TRUE
  /\ cache = EmptyCache
  /\ lock = NoSession
  /\ pc = [s \in Sessions |-> "idle"]
  /\ retriever = [s \in Sessions |-> None]
  /\ rag_chain = [s \in Sessions |-> FALSE]
  /\ reports = [s \in Sessions |-> <<>>]
  /\ formOnScreen = [s \in Sessions |-> FALSE]
  /\ form = [s \in Sessions |-> NoForm]
  /\ user_input = [s \in Sessions |-> ""]
  /\ context = [s \in Sessions |-> <<>>]
  /\ files = [s \in Sessions |-> <<>>]
  /\ all_documents = [s \in Sessions |-> <<>>]
  /\ splits = [s \in Sessions |-> <<>>]
  /\ buildCount = 0
  /\ attempted = {}
  /\ stages = <<>>
  /\ reported = {}
  /\ runs = [s \in Sessions |-> 0]
  /\ genRun = [s \in Sessions |-> 0]
  /\ lastGen = [s \in Sessions |-> "none"]
  /\ cdoc \in {[source |-> n, content |-> t] : n \in {"a.txt"}, t \in TextSet}
  /\ cchunks = <<>>
  /\ cdone = FALSE

SplitOne ==
  /\ ~cdone
  /\ cchunks' = SplitDocument(cdoc)
  /\ cdone' = TRUE
  /\ UNCHANGED <<cdoc, appvars>>

ChunkSpec == ChunkInit /\ [][SplitOne]_vars

\* ------------------------------------------------------------ properties
Count(seq, x) == Cardinality({i \in DOMAIN seq : seq[i] = x})
InSetup(s) == pc[s] \in {"setup_rag", "wait_lock", "list", "download", "check_docs",
                         "chunk", "embed", "index"}
BuildStages == {"chunk", "embed", "index"}
QueryStages == {"embed_query", "query", "generate"}
SetupFailures == {"FetchError", "EmptyKnowledgeBase", "EmbeddingError", "IndexError"}

\* C1: over all setup requests of the process, concurrent ones included, the
\* body of setup_rag is entered at most once, and every caller that has its
\* result holds the one memoized value.
C1_BuildAtMostOnce ==
  /\ buildCount <= 1
  /\ \A s \in Sessions :
       (hasKey /\ runs[s] > 0 /\ ~InSetup(s)) =>
         (cache.full /\ buildCount = 1 /\ retriever[s] = cache.value)

\* Both sessions asked in their first run and both hold the handle of the one build.
C1_Witness ==
  /\ buildCount = 1
  /\ cache.value.ok
  /\ \A s \in Sessions : runs[s] = 1 /\ pc[s] = "form" /\ retriever[s] = cache.value

\* C2: without the credential no stage and no remote call is ever started,
\* setup_rag and setup_chain are not entered, and a run reports exactly the
\* one MissingCredential condition.
C2_NoCallWithoutCredential ==
  ~hasKey =>
    /\ attempted = {}
    /\ buildCount = 0
    /\ \A s \in Sessions :
         /\ pc[s] = "idle"
         /\ ~rag_chain[s]
         /\ runs[s] > 0 => reports[s] = <<"MissingCredential">>

C2_Witness == ~hasKey /\ \A s \in Sessions : runs[s] = 2

\* C3: a listing that succeeds without a .txt entry ends the setup with
\* EmptyKnowledgeBase and no handle; and once EmptyKnowledgeBase is reported,
\* no chunking, embedding, index build, retrieval or generation is ever started.
C3_EmptyKnowledgeBase ==
  /\ (cache.full /\ stages = << <<"list", TRUE>> >>) =>
        /\ cache.messages = <<"EmptyKnowledgeBase">>
        /\ ~cache.value.ok
  /\ "EmptyKnowledgeBase" \in reported =>
        /\ attempted \cap (BuildStages \cup QueryStages) = {}
        /\ ~cache.value.ok
        /\ \A s \in Sessions : ~retriever[s].ok /\ ~formOnScreen[s]

\* The empty knowledge base was reported, and a session has run again since.
C3_Witness ==
  /\ stages = << <<"list", TRUE>> >>
  /\ "EmptyKnowledgeBase" \in reported
  /\ \E s \in Sessions : runs[s] = 2 /\ pc[s] = "idle"

\* C4: once a stage of the setup has failed, neither chunking nor embedding nor
\* the index build runs, and the setup ends without a handle.
C4_ShortCircuit ==
  \A i \in DOMAIN stages :
    ~stages[i][2] =>
      /\ \A j \in DOMAIN stages : j > i => stages[j][1] \notin BuildStages
      /\ cache.full => ~cache.value.ok

\* C5: a run that ended with a failure other than MissingCredential leaves the
\* form on the page.
C5_FormAfterFailure ==
  \A s \in Sessions :
    (pc[s] = "idle"
       /\ Range(reports[s]) \cap (SetupFailures \cup {"GenerationError"}) # {}) =>
      formOnScreen[s]

CText == Expand(cdoc.content)
CSpans == [i \in DOMAIN cchunks |-> <<cchunks[i].lo, cchunks[i].hi>>]
Covered(p) == \E i \in DOMAIN cchunks : cchunks[i].lo <= p /\ p < cchunks[i].hi
SameSource == \A i \in DOMAIN cchunks : cchunks[i].source = cdoc.source
Solid(text) == \A i \in DOMAIN text : ~IsWhitespace(text[i])

\* The windows of chunk_size characters that advance by chunk_size -
\* chunk_overlap over a text of len characters, the last one possibly shorter.
Windows(len) ==
  LET step == chunk_size - chunk_overlap
      n == IF len <= chunk_size THEN 1
           ELSE 1 + ((len - chunk_size) + step - 1) \div step
  IN [i \in 1..n |->
        <<(i - 1) * step,
          IF (i - 1) * step + chunk_size < len THEN (i - 1) * step + chunk_size ELSE len>>]

\* C7 as stated: every character position of the document lies in a chunk, and
\* every chunk carries the document's source.
C7_FullCoverage ==
  cdone => /\ \A p \in 0..(Len(CText) - 1) : Covered(p)
           /\ SameSource

\* C7 as amended: every position of the document that holds a character other
\* than whitespace lies in a chunk, the chunks come in the order of the
\* document, and every chunk carries the document's source.
C7_SolidCoverage ==
  cdone =>
    LET text == CText
    IN /\ \A p \in 0..(Len(text) - 1) : ~IsWhitespace(text[p + 1]) => Covered(p)
       /\ \A i \in DOMAIN cchunks :
            /\ 0 <= cchunks[i].lo /\ cchunks[i].lo < cchunks[i].hi
            /\ cchunks[i].hi <= Len(text)
            /\ i > 1 => cchunks[i - 1].lo <= cchunks[i].lo
       /\ SameSource

\* A document split into several chunks, one of its whitespace characters in none.
C7_Witness ==
  /\ cdone
  /\ Len(cchunks) >= 2
  /\ LET text == CText
     IN \E p \in 0..(Len(text) - 1) : IsWhitespace(text[p + 1]) /\ ~Covered(p)

\* C8 as stated: the chunks of every document are the sliding windows over it.
C8_SlidingWindow == cdone => CSpans = Windows(Len(CText))

\* C8 as amended: the chunks of a document of at least one character and
\* without whitespace are the sliding windows over it (1500 characters: [0,1000)
\* and [900,1500); 300 characters: one chunk); and a document of at most
\* chunk_size characters, not all of them whitespace, yields exactly one chunk.
C8_SlidingWindowSolid ==
  cdone =>
    LET text == CText
    IN /\ (Len(text) >= 1 /\ Solid(text)) => CSpans = Windows(Len(text))
       /\ cdoc.content = << <<"a", 1500>> >> => CSpans = << <<0, 1000>>, <<900, 1500>> >>
       /\ cdoc.content = << <<"a", 300>> >> => CSpans = << <<0, 300>> >>
       /\ (Len(text) <= chunk_size /\ ~\A i \in DOMAIN text : IsWhitespace(text[i]))
            => Len(cchunks) = 1

C8_Witness == cdone /\ cdoc.content = << <<"a", 1500>> >> /\ Len(cchunks) = 2

\* C9: the retriever returns min(5, n) of the n entries of the index, each
\* once, nearest first, none of the entries left out nearer than one returned,
\* however far the query is from all of them.
Retrieved(s) == pc[s] = "generate" \/ lastGen[s] \in {"ok", "failed"}
QueryDistance(s, e) == Distance(e.vec, EmbeddingModel(user_input[s]))

C9_TopK ==
  \A s \in Sessions :
    Retrieved(s) =>
      LET index == retriever[s].index
          ctx == context[s]
      IN /\ Len(ctx) = IF Len(index) < 5 THEN Len(index) ELSE 5
         /\ Range(ctx) \subseteq Range(index)
         /\ Cardinality(Range(ctx)) = Len(ctx)
         /\ \A i \in 1..(Len(ctx) - 1) :
              QueryDistance(s, ctx[i]) <= QueryDistance(s, ctx[i + 1])
         /\ \A e \in Range(index) \ Range(ctx) : \A c \in Range(ctx) :
              QueryDistance(s, c) <= QueryDistance(s, e)

\* More than five entries, none of them at distance 0 from the query: five returned.
C9_Witness ==
  \E s \in Sessions :
    /\ Retrieved(s)
    /\ Len(retriever[s].index) > 5
    /\ Len(context[s]) = 5
    /\ \A e \in Range(retriever[s].index) : QueryDistance(s, e) > 0

\* C10: the chain is invoked for a submission exactly when job_title is not
\* empty; an empty job_title gets the warning and no call; the other fields,
\* empty or not, go into the input after their labels as they are.
C10_TitleDecides ==
  \A s \in Sessions :
    /\ (pc[s] \in {"retrieve", "generate"} \/ lastGen[s] # "none") =>
         /\ form[s].submitted /\ form[s].job_title # ""
         /\ user_input[s] = "job_title: " \o form[s].job_title \o "\n"
                            \o "target_audience: " \o form[s].target_audience \o "\n"
                            \o "required_skills: " \o form[s].required_skills \o "\n"
                            \o "welcome_skills: " \o form[s].welcome_skills \o "\n"
    /\ (pc[s] = "idle" /\ form[s].submitted /\ formOnScreen[s]) =>
         IF form[s].job_title = ""
         THEN /\ reports[s] = <<"Ready", "TitleRequired">>
              /\ lastGen[s] = "none" /\ genRun[s] = 0 /\ context[s] = <<>>
         ELSE lastGen[s] # "none"

\* A call made for a submission whose optional fields are all empty.
C10_Witness ==
  \E s \in Sessions :
    /\ lastGen[s] = "ok"
    /\ form[s].target_audience = "" /\ form[s].required_skills = ""
    /\ form[s].welcome_skills = ""

====
